---------------------------- MODULE Spec2Model ----------------------------
(***************************************************************************)
(* Celfie Lock (src/celfie.py): LSB steganography of a compressed,         *)
(* encrypted message in the channel values of an RGB image.                *)
(*                                                                         *)
(* Bytes are integers 0..255, strings are sequences of code points, a      *)
(* raster is the flat sequence of channel values (flat_img in the source,  *)
(* 1-based here: Python index i is position i+1).                          *)
(*                                                                         *)
(* Library calls are modelled by what they do to bytes:                    *)
(*   str.encode / bytes.decode   UTF-8, strict                             *)
(*   zlib.compress / decompress  the zlib container (RFC 1950: CMF, FLG,   *)
(*                               Adler-32) around one stored DEFLATE block;*)
(*                               Huffman coding of the body is not modelled*)
(*   base64.urlsafe_b64encode / urlsafe_b64decode   exactly, including the *)
(*                               decoder's leniency (skips characters      *)
(*                               outside the alphabet, ignores excess bits)*)
(*   Fernet                      the token layout 0x80 | timestamp | IV |  *)
(*                               CBC ciphertext of the PKCS7-padded data | *)
(*                               tag, base64url-encoded; the block cipher  *)
(*                               and the MAC are keyed stand-ins (AES and  *)
(*                               HMAC-SHA256 themselves are not computed)  *)
(***************************************************************************)
EXTENDS Integers, Sequences, FiniteSets, TLC

(***************************************************************************)
(* Constants of the source                                                 *)
(***************************************************************************)
SIGNATURE == <<67, 69, 76, 70, 73, 69>>

VERSION == 1

HEADER_SIZE == 74

DELIMITER == <<0, 255, 0, 255, 0, 255, 0, 255>>

MAX_DATA_LENGTH == 10000000

(***************************************************************************)
(* Integers wider than TLC's 32 bits: a u64 that does not fit is kept as   *)
(* Huge, which is larger than every length the program compares it with.   *)
(***************************************************************************)
Pow2(k) == 2 ^ k

Huge == Pow2(30) + (Pow2(30) - 1)

(***************************************************************************)
(* Sequence helpers                                                        *)
(***************************************************************************)
AsSeq(f) == f \o <<>>

Slice(s, a, b) ==
    \* Python s[a:b] with 0 <= a: elements a+1 .. min(b, len(s)).
    LET hi == IF b < Len(s) THEN b ELSE Len(s)
    IN  IF hi <= a THEN <<>> ELSE SubSeq(s, a + 1, hi)

RECURSIVE SumRange(_, _, _)
SumRange(s, lo, hi) ==
    \* s[lo] + ... + s[hi], halving the range.
    IF lo > hi THEN 0
    ELSE IF lo = hi THEN s[lo]
    ELSE LET mid == (lo + hi) \div 2
         IN  SumRange(s, lo, mid) + SumRange(s, mid + 1, hi)

Sum(s) == SumRange(s, 1, Len(s))

WSum(s) == SumRange([i \in 1..Len(s) |-> i * s[i]], 1, Len(s))

(***************************************************************************)
(* format(b, '08b') joined over the bytes, and int(byte, 2) over groups of *)
(* eight bits: most-significant bit first.                                 *)
(***************************************************************************)
BytesToBits(bs) ==
    AsSeq([i \in 1..(8 * Len(bs)) |->
        (bs[((i - 1) \div 8) + 1] \div Pow2(7 - ((i - 1) % 8))) % 2])

BitsToBytes(bits) ==
    [j \in 1..(Len(bits) \div 8) |->
        128 * bits[8 * j - 7] + 64 * bits[8 * j - 6] + 32 * bits[8 * j - 5]
        + 16 * bits[8 * j - 4] + 8 * bits[8 * j - 3] + 4 * bits[8 * j - 2]
        + 2 * bits[8 * j - 1] + bits[8 * j]] \o <<>>

(***************************************************************************)
(* UTF-8 (str.encode('utf-8'), bytes.decode('utf-8'))                      *)
(***************************************************************************)
Utf8Char(cp) ==
    IF cp < 128 THEN <<cp>>
    ELSE IF cp < 2048 THEN <<192 + (cp \div 64), 128 + (cp % 64)>>
    ELSE IF cp < 65536
         THEN <<224 + (cp \div 4096), 128 + ((cp \div 64) % 64), 128 + (cp % 64)>>
    ELSE <<240 + (cp \div 262144), 128 + ((cp \div 4096) % 64),
           128 + ((cp \div 64) % 64), 128 + (cp % 64)>>

RECURSIVE Utf8Encode(_)
Utf8Encode(s) ==
    IF s = <<>> THEN <<>> ELSE Utf8Char(Head(s)) \o Utf8Encode(Tail(s))

IsCont(b) == b >= 128 /\ b < 192

RECURSIVE Utf8DecodeFrom(_, _, _)
Utf8DecodeFrom(bs, i, acc) ==
    \* [ok, val]: ok = FALSE is UnicodeDecodeError.
    IF i > Len(bs) THEN [ok |-> TRUE, val |-> acc]
    ELSE LET b == bs[i]
             n == Len(bs)
         IN  IF b < 128 THEN Utf8DecodeFrom(bs, i + 1, Append(acc, b))
             ELSE IF b >= 194 /\ b < 224
                  THEN IF i + 1 <= n /\ IsCont(bs[i + 1])
                       THEN Utf8DecodeFrom(bs, i + 2,
                                Append(acc, (b - 192) * 64 + (bs[i + 1] - 128)))
                       ELSE [ok |-> FALSE, val |-> <<>>]
             ELSE IF b >= 224 /\ b < 240
                  THEN IF i + 2 <= n /\ IsCont(bs[i + 1]) /\ IsCont(bs[i + 2])
                       THEN LET cp == (b - 224) * 4096 + (bs[i + 1] - 128) * 64
                                      + (bs[i + 2] - 128)
                            IN  IF cp < 2048 \/ (cp >= 55296 /\ cp < 57344)
                                THEN [ok |-> FALSE, val |-> <<>>]
                                ELSE Utf8DecodeFrom(bs, i + 3, Append(acc, cp))
                       ELSE [ok |-> FALSE, val |-> <<>>]
             ELSE IF b >= 240 /\ b < 245
                  THEN IF i + 3 <= n /\ IsCont(bs[i + 1]) /\ IsCont(bs[i + 2])
                          /\ IsCont(bs[i + 3])
                       THEN LET cp == (b - 240) * 262144 + (bs[i + 1] - 128) * 4096
                                      + (bs[i + 2] - 128) * 64 + (bs[i + 3] - 128)
                            IN  IF cp < 65536 \/ cp > 1114111
                                THEN [ok |-> FALSE, val |-> <<>>]
                                ELSE Utf8DecodeFrom(bs, i + 4, Append(acc, cp))
                       ELSE [ok |-> FALSE, val |-> <<>>]
             ELSE [ok |-> FALSE, val |-> <<>>]

Utf8Decode(bs) == Utf8DecodeFrom(bs, 1, <<>>)

(***************************************************************************)
(* zlib.compress(data, level=9) and zlib.decompress                        *)
(***************************************************************************)
Adler32(data) ==
    LET n == Len(data)
        a == (1 + Sum(data)) % 65521
        \* b = sum of the running values of a = n + sum (n - i + 1) * d[i]
        b == (n + (n + 1) * Sum(data) - WSum(data)) % 65521
    IN  <<b \div 256, b % 256, a \div 256, a % 256>>

ZlibCompress(data) ==
    LET n == Len(data)
    IN  <<120, 218>>
        \o <<1, n % 256, n \div 256, 255 - (n % 256), 255 - (n \div 256)>>
        \o data \o Adler32(data)

ZlibDecompress(z) ==
    \* [ok, val]: ok = FALSE is zlib.error.
    LET bad == [ok |-> FALSE, val |-> <<>>]
    IN  IF Len(z) < 7 THEN bad
        ELSE IF z[1] % 16 # 8 \/ z[1] \div 16 > 7
                \/ (z[1] * 256 + z[2]) % 31 # 0 \/ (z[2] \div 32) % 2 # 0
             THEN bad
        ELSE IF z[3] % 8 # 1 THEN bad
        ELSE LET n    == z[4] + 256 * z[5]
                 data == Slice(z, 7, 7 + n)
             IN  IF z[6] # 255 - z[4] \/ z[7] # 255 - z[5] THEN bad
                 ELSE IF Len(z) < 7 + n + 4 THEN bad
                 ELSE IF Slice(z, 7 + n, 7 + n + 4) # Adler32(data) THEN bad
                 ELSE [ok |-> TRUE, val |-> data]

(***************************************************************************)
(* base64.urlsafe_b64encode and base64.urlsafe_b64decode                   *)
(***************************************************************************)
B64Char(v) ==
    IF v < 26 THEN 65 + v
    ELSE IF v < 52 THEN 97 + (v - 26)
    ELSE IF v < 62 THEN 48 + (v - 52)
    ELSE IF v = 62 THEN 45
    ELSE 95

B64Val(c) ==
    \* 64 for a character outside the alphabet. The decoder maps '-' to '+' and
    \* '_' to '/' and then decodes the standard alphabet, so all four are accepted.
    IF c >= 65 /\ c <= 90 THEN c - 65
    ELSE IF c >= 97 /\ c <= 122 THEN c - 97 + 26
    ELSE IF c >= 48 /\ c <= 57 THEN c - 48 + 52
    ELSE IF c = 43 \/ c = 45 THEN 62
    ELSE IF c = 47 \/ c = 95 THEN 63
    ELSE 64

UrlsafeB64Encode(bs) ==
    LET n  == Len(bs)
        at(i) == IF i <= n THEN bs[i] ELSE 0
        quad(g) ==
            LET b1 == at(3 * g - 2)
                b2 == at(3 * g - 1)
                b3 == at(3 * g)
            IN  << B64Char(b1 \div 4),
                   B64Char((b1 % 4) * 16 + (b2 \div 16)),
                   IF 3 * g - 1 <= n THEN B64Char((b2 % 16) * 4 + (b3 \div 64))
                                     ELSE 61,
                   IF 3 * g <= n THEN B64Char(b3 % 64) ELSE 61 >>
    IN  AsSeq([i \in 1..(4 * ((n + 2) \div 3)) |-> quad(((i - 1) \div 4) + 1)[((i - 1) % 4) + 1]])

A2bBase64(s) ==
    \* binascii.a2b_base64, not strict: [ok, val]; ok = FALSE is binascii.Error.
    \* The decoder's loop, in closed form: characters outside the alphabet are
    \* skipped; quad_pos at a position is the number of data characters before it
    \* modulo 4; a '=' at quad_pos 3, or the second '=' since the last data
    \* character at quad_pos 2, ends the parse (the rest is ignored, as are the
    \* leftover bits); without such an end, quad_pos must be 0 at the end.
    LET n       == Len(s)
        idx     == SelectSeq([i \in 1..n |-> i], LAMBDA i : B64Val(s[i]) < 64)
        before(p) == Cardinality({j \in 1..Len(idx) : idx[j] < p})
        pad     == {p \in 1..n : s[p] = 61}
        ends    == {p \in pad :
                      \/ before(p) % 4 = 3
                      \/ /\ before(p) % 4 = 2
                         /\ \E q \in pad : q < p /\ before(q) = before(p)}
        stopped == ends # {}
        stop    == IF stopped THEN CHOOSE p \in ends : \A q \in ends : p <= q
                   ELSE n + 1
        m       == before(stop)
        v(k)    == B64Val(s[idx[k]])
        nbytes  == 3 * (m \div 4)
                   + (IF m % 4 = 2 THEN 1 ELSE IF m % 4 = 3 THEN 2 ELSE 0)
        byte(k) == LET g == 4 * ((k - 1) \div 3)
                       r == (k - 1) % 3
                   IN  IF r = 0 THEN v(g + 1) * 4 + (v(g + 2) \div 16)
                       ELSE IF r = 1 THEN (v(g + 2) % 16) * 16 + (v(g + 3) \div 4)
                       ELSE (v(g + 3) % 4) * 64 + v(g + 4)
    IN  IF ~stopped /\ m % 4 # 0 THEN [ok |-> FALSE, val |-> <<>>]
        ELSE [ok |-> TRUE, val |-> AsSeq([k \in 1..nbytes |-> byte(k)])]

UrlsafeB64Decode(s) == A2bBase64(s)

(***************************************************************************)
(* Fernet (cryptography.fernet): key = urlsafe_b64decode(key), signing key *)
(* its first 16 bytes, encryption key its last 16.                         *)
(***************************************************************************)
FernetKey(random_key) ==
    \* base64.urlsafe_b64encode(random_key), as Fernet(key) reads it back.
    UrlsafeB64Decode(UrlsafeB64Encode(random_key)).val

SigningKey(key) == Slice(key, 0, 16)

EncryptionKey(key) == Slice(key, 16, 32)

PKCS7Pad(data) ==
    LET p == 16 - (Len(data) % 16)
    IN  data \o [i \in 1..p |-> p]

PKCS7Unpad(padded) ==
    \* [ok, val]: ok = FALSE is ValueError (invalid padding).
    LET n == Len(padded)
        p == IF n = 0 THEN 0 ELSE padded[n]
    IN  IF n = 0 \/ n % 16 # 0 \/ p < 1 \/ p > 16 THEN [ok |-> FALSE, val |-> <<>>]
        ELSE IF \E i \in (n - p + 1)..n : padded[i] # p
             THEN [ok |-> FALSE, val |-> <<>>]
        ELSE [ok |-> TRUE, val |-> Slice(padded, 0, n - p)]

KeySchedule(ek) ==
    \* Stand-in for the AES key expansion: 16 round bytes, each of which changes
    \* with every single-bit change of the key.
    LET s == Sum(ek)
    IN  AsSeq([i \in 1..16 |-> (s + 2 * ek[i] + 1) % 256])

CbcEncrypt(ek, iv, padded) ==
    \* Stand-in for AES-128-CBC: each block is chained to the one before it (the
    \* IV first) and keyed; a bijection on blocks for each key, and a wrong key
    \* changes every byte of every block.
    LET n  == Len(padded)
        ks == KeySchedule(ek)
        c[i \in 1..n] ==
            (padded[i] + (IF i <= 16 THEN iv[i] ELSE c[i - 16])
             + ks[((i - 1) % 16) + 1]) % 256
    IN  AsSeq([i \in 1..n |-> c[i]])

CbcDecrypt(ek, iv, ct) ==
    LET ks == KeySchedule(ek)
    IN  AsSeq([i \in 1..Len(ct) |->
            (ct[i] + 512 - (IF i <= 16 THEN iv[i] ELSE ct[i - 16])
             - ks[((i - 1) % 16) + 1]) % 256])

Hmac(sk, data) ==
    \* Stand-in for HMAC-SHA256: 32 bytes that change with every single-bit
    \* change of the key or of the data.
    LET s1 == Sum(data)
        s2 == WSum(data)
    IN  AsSeq([j \in 1..32 |-> (sk[((j - 1) % 16) + 1] * 7 + j * s1 + s2 + Len(data)) % 256])

FernetEncrypt(random_key, current_time, iv, data) ==
    \* Fernet.encrypt: current_time is int(time.time()) as 8 bytes big-endian,
    \* iv is os.urandom(16).
    LET key   == FernetKey(random_key)
        ct    == CbcEncrypt(EncryptionKey(key), iv, PKCS7Pad(data))
        parts == <<128>> \o current_time \o iv \o ct
    IN  UrlsafeB64Encode(parts \o Hmac(SigningKey(key), parts))

FernetDecrypt(embedded_key, token) ==
    \* Fernet.decrypt without ttl: [ok, val]; ok = FALSE is InvalidToken (or the
    \* ValueError of a malformed IV).
    LET bad  == [ok |-> FALSE, val |-> <<>>]
        key  == FernetKey(embedded_key)
        dec  == UrlsafeB64Decode(token)
        data == dec.val
        n    == Len(data)
        body == Slice(data, 0, n - 32)
        tag  == IF n <= 32 THEN data ELSE Slice(data, n - 32, n)
        iv   == Slice(data, 9, 25)
        ct   == IF n - 32 <= 25 THEN <<>> ELSE Slice(data, 25, n - 32)
    IN  IF ~dec.ok THEN bad
        ELSE IF n = 0 THEN bad
        ELSE IF data[1] # 128 THEN bad
        ELSE IF n < 9 THEN bad
        ELSE IF tag # Hmac(SigningKey(key), body) THEN bad
        ELSE IF Len(iv) # 16 THEN bad
        ELSE PKCS7Unpad(CbcDecrypt(EncryptionKey(key), iv, ct))

(***************************************************************************)
(* struct.pack("<6sI32s16sQ8s", ...) and the unpacking of "<I" and "<Q"    *)
(***************************************************************************)
BigEndian(n, width) ==
    \* The same bytes, most significant first.
    [i \in 1..width |->
        IF width - i < 4 THEN (n \div (256 ^ (width - i))) % 256 ELSE 0]

LittleEndian(n, width) ==
    \* n < 2^31 here, so bytes 5.. of a wider field are 0.
    [i \in 1..width |-> IF i <= 4 THEN (n \div (256 ^ (i - 1))) % 256 ELSE 0]

UnpackLittleEndian(bs) ==
    \* The value, or Huge when it does not fit below 2^31.
    IF \E i \in 1..Len(bs) : (i > 4 /\ bs[i] # 0) \/ (i = 4 /\ bs[i] >= 128)
    THEN Huge
    ELSE SumRange([i \in 1..Len(bs) |-> IF i <= 4 THEN bs[i] * (256 ^ (i - 1)) ELSE 0],
                  1, Len(bs))

PackHeader(signature_bytes, version, random_key, salt, length, delimiter) ==
    signature_bytes \o LittleEndian(version, 4) \o random_key \o salt
    \o LittleEndian(length, 8) \o delimiter

(***************************************************************************)
(* encode, lines 193-243: the payload, the capacity check, the embedding   *)
(***************************************************************************)
FullMessage(message, link) ==
    \* f"{message}\nLINK:{link}" when link is non-empty.
    IF link # <<>> THEN message \o <<10, 76, 73, 78, 75, 58>> \o link ELSE message

EncryptedData(message, link, random_key, current_time, iv) ==
    FernetEncrypt(random_key, current_time, iv,
                  ZlibCompress(Utf8Encode(FullMessage(message, link))))

DataToHide(random_key, salt, encrypted_data) ==
    PackHeader(SIGNATURE, VERSION, random_key, salt, Len(encrypted_data), DELIMITER)
    \o encrypted_data

Capacity(width, height) == width * height * 3

TooLargeOrEqual(required_bits, capacity) ==
    \* The check with >= for >.
    required_bits >= capacity

TooLarge(required_bits, capacity) ==
    \* len(binary_data) > capacity
    required_bits > capacity

SetLsbOnly(value, bit) ==
    \* The bit written without keeping the other seven.
    bit

SetLsb(value, bit) == (value - (value % 2)) + bit

EmbedBits(flat_img, binary_data) ==
    \* for i, bit in enumerate(binary_data): if i < len(flat_img): ...
    [i \in 1..Len(flat_img) |->
        IF i <= Len(binary_data) THEN SetLsb(flat_img[i], binary_data[i])
        ELSE flat_img[i]]

(***************************************************************************)
(* decode, lines 295-358                                                   *)
(***************************************************************************)
NoneResult == [kind |-> "None", val |-> <<>>]

StrResult(s) == [kind |-> "str", val |-> s]

Lsb(flat_img, first, count) ==
    \* str(flat_img[i] & 1) for i in range(first, first + count)
    AsSeq([i \in 1..count |-> flat_img[first + i] % 2])

LengthInvalid(data_length, flat_len) ==
    \* max_data = len(flat_img) - HEADER_SIZE * 8
    data_length > flat_len - HEADER_SIZE * 8 \/ data_length > MAX_DATA_LENGTH

NoFields == [version |-> 0, key |-> <<>>, salt |-> <<>>, data_length |-> 0]

ParseHeaderAnySignature(header_bytes, flat_len) ==
    \* The header read without comparing the signature.
    LET fields == [version     |-> UnpackLittleEndian(Slice(header_bytes, 6, 10)),
                   key         |-> Slice(header_bytes, 10, 42),
                   salt        |-> Slice(header_bytes, 42, 58),
                   data_length |-> UnpackLittleEndian(Slice(header_bytes, 58, 66))]
    IN  IF LengthInvalid(fields.data_length, flat_len)
        THEN [stage |-> "length", fields |-> fields]
        ELSE [stage |-> "ok", fields |-> fields]

ParseHeader(header_bytes, flat_len) ==
    \* lines 309-330: the signature, the header fields, the length validation.
    \* stage is "ok" when decode goes on to extract the encrypted data.
    LET signature == Utf8Decode(Slice(header_bytes, 0, 6))
        fields    == [version     |-> UnpackLittleEndian(Slice(header_bytes, 6, 10)),
                      key         |-> Slice(header_bytes, 10, 42),
                      salt        |-> Slice(header_bytes, 42, 58),
                      data_length |-> UnpackLittleEndian(Slice(header_bytes, 58, 66))]
    IN  IF ~signature.ok THEN [stage |-> "UnicodeDecodeError", fields |-> NoFields]
        ELSE IF signature.val # SIGNATURE THEN [stage |-> "signature", fields |-> NoFields]
        ELSE IF LengthInvalid(fields.data_length, flat_len)
             THEN [stage |-> "length", fields |-> fields]
        ELSE [stage |-> "ok", fields |-> fields]

Outcome(raised, ret, stage, reads, header) ==
    \* What a run of decode did:
    \*   raised  the exception that leaves decode ("" when it returns)
    \*   ret     the value returned
    \*   stage   where the run ended
    \*   reads   the run asks for flat_img[0 .. reads-1] in order; an index
    \*           >= len(flat_img) among them is an IndexError at that read
    \*   header  the fields read from the header, once the signature matched
    [raised |-> raised, ret |-> ret, stage |-> stage, reads |-> reads,
     header |-> header]

DecodeImage(flat_img) ==
    \* decode on the channel values of the image it opened. The header bits are
    \* read before the try block (an IndexError there leaves decode); everything
    \* after is inside it (any exception returns None).
    LET n         == Len(flat_img)
        hbits     == HEADER_SIZE * 8
        parsed    == ParseHeader(BitsToBytes(Lsb(flat_img, 0, hbits)), n)
        dbits     == parsed.fields.data_length * 8
        encrypted == BitsToBytes(Lsb(flat_img, hbits, dbits))
        plain     == FernetDecrypt(parsed.fields.key, encrypted)
        inflated  == ZlibDecompress(plain.val)
        text      == Utf8Decode(inflated.val)
    IN  IF n < hbits
        THEN Outcome("IndexError", NoneResult, "header", hbits, NoFields)
        ELSE IF parsed.stage # "ok"
        THEN Outcome("", NoneResult, parsed.stage, hbits, parsed.fields)
        ELSE IF hbits + dbits > n
        THEN Outcome("", NoneResult, "IndexError", hbits + dbits, parsed.fields)
        ELSE IF ~plain.ok
        THEN Outcome("", NoneResult, "InvalidToken", hbits + dbits, parsed.fields)
        ELSE IF ~inflated.ok
        THEN Outcome("", NoneResult, "zlib.error", hbits + dbits, parsed.fields)
        ELSE IF ~text.ok
        THEN Outcome("", NoneResult, "UnicodeDecodeError", hbits + dbits, parsed.fields)
        ELSE Outcome("", StrResult(text.val), "decoded", hbits + dbits, parsed.fields)

(***************************************************************************)
(* Inputs                                                                  *)
(***************************************************************************)
MaxWidth == 26

Draw(k) ==
    \* One outcome of secrets.token_bytes(32), secrets.token_bytes(16),
    \* int(time.time()) and os.urandom(16).
    [random_key   |-> [i \in 1..32 |-> (k * 53 + i * 29 + 7) % 256],
     salt         |-> [i \in 1..16 |-> (k * 91 + i * 17) % 256],
     current_time |-> <<0, 0, 0, 0, 106, 190, 20 + k, 7>>,
     iv           |-> [i \in 1..16 |-> (k * 13 + i * 101 + 3) % 256]]

Calls ==
    \* encode's arguments and the draw of its randomness.
    { [message |-> <<>>, link |-> <<>>, draw |-> 1],             \* ""
      [message |-> <<104, 233>>, link |-> <<117>>, draw |-> 2],  \* "hé", link "u"
      [message |-> <<108, 105, 110, 101, 32, 233, 10, 108, 105, 110, 101, 32,
                     116, 119, 111, 58, 32, 8364, 33, 33, 33>>,
       link |-> <<>>, draw |-> 1] }                \* "line é\nline two: €!!!"

Photo(n) == AsSeq([i \in 1..n |-> (i * 37 + 11) % 256])

Flat(n, v) == AsSeq([i \in 1..n |-> v])

Images ==
    \* RGB images as Image.open gives them: width, height and the pixels.
    { [width |-> 10,  height |-> 10, pixels |-> "photo"],
      [width |-> 464, height |-> 1,  pixels |-> "white"],
      [width |-> 517, height |-> 1,  pixels |-> "black"],
      [width |-> MaxWidth, height |-> 22, pixels |-> "photo"] }

Pixels(image) ==
    \* list(img.getdata()), flattened: the channel values of the image.
    LET n == image.width * image.height * 3
    IN  IF image.pixels = "white" THEN Flat(n, 255)
        ELSE IF image.pixels = "black" THEN Flat(n, 0)
        ELSE Photo(n)

Craft(n, bytes) == EmbedBits(Photo(n), BytesToBits(bytes))

HeaderWith(k, length) ==
    PackHeader(SIGNATURE, VERSION, Draw(k).random_key, Draw(k).salt, length, DELIMITER)

Forged(k, version, delimiter, data) ==
    \* A hidden region made elsewhere with the key its header carries: a token
    \* over any bytes, under any version and delimiter.
    LET token == FernetEncrypt(Draw(k).random_key, Draw(k).current_time, Draw(k).iv, data)
    IN  PackHeader(SIGNATURE, version, Draw(k).random_key, Draw(k).salt, Len(token),
                   delimiter) \o token

ForeignRasters ==
    \* Channel values of images that encode did not write.
    { Flat(300, 0), Flat(600, 0), Flat(600, 255), Photo(1716),
      Craft(600, <<67, 69, 76, 70, 73, 88>>),
      Craft(600, HeaderWith(1, 0)),
      Craft(600, HeaderWith(1, 1)),
      Craft(600, HeaderWith(1, 2)),
      Craft(600, HeaderWith(1, 8)),
      Craft(600, HeaderWith(1, 9)),
      Craft(640, HeaderWith(1, 48)),
      Craft(600, HeaderWith(1, MAX_DATA_LENGTH + 1)),
      Craft(600, SIGNATURE \o Flat(60, 255) \o DELIMITER),
      Craft(1716, Forged(1, VERSION, DELIMITER, <<1, 2, 3>>)),
      Craft(1716, Forged(1, VERSION, DELIMITER, ZlibCompress(<<104, 255>>))),
      Craft(1716, Forged(2, VERSION, DELIMITER, ZlibCompress(<<104, 105>>))),
      Craft(1716, Forged(2, 2, DELIMITER, ZlibCompress(<<104, 105>>))),
      Craft(1716, Forged(1, VERSION, <<0, 255, 0, 255, 0, 255, 0, 254>>,
                         ZlibCompress(<<104, 105>>))),
      Craft(1716, <<67, 69, 76, 70, 73, 88>>
                  \o Slice(Forged(1, VERSION, DELIMITER, ZlibCompress(<<104, 105>>)),
                           6, 174)) }

(***************************************************************************)
(* State                                                                   *)
(***************************************************************************)
VARIABLES
    pc,            \* where the run stands
    img,           \* the input image (input_path)
    message, link, \* encode's arguments
    draw,          \* which Draw gave the key, salt, timestamp and IV (0: none yet)
    data_to_hide,  \* header + encrypted_data, while encode runs
    flat_img,      \* encode's list of channel values, while encode runs
    out,           \* the image at output_path / image_path: [exists, data]
    raised,        \* the exception that left encode ("" when none)
    embedded,      \* len(binary_data) of the encode that wrote out (0: none)
    tampered,      \* Python index + 1 of the channel value changed since (0: none)
    decoded        \* what decode did, once it has run

vars == <<pc, img, message, link, draw, data_to_hide, flat_img, out, raised,
          embedded, tampered, decoded>>

NotDecoded == Outcome("", NoneResult, "", 0, NoFields)

NoFile == [exists |-> FALSE, data |-> <<>>]

Start ==
    /\ pc = "ready"
    /\ message = <<>>
    /\ link = <<>>
    /\ draw = 0
    /\ data_to_hide = <<>>
    /\ flat_img = <<>>
    /\ out = NoFile
    /\ raised = ""
    /\ embedded = 0
    /\ tampered = 0
    /\ decoded = NotDecoded

Init == img \in Images /\ Start

(***************************************************************************)
(* encode(input_path, output_path, message, link)                          *)
(***************************************************************************)
Hidden(m, l, k) ==
    \* header + encrypted_data of encode(message = m, link = l) under Draw(k)
    DataToHide(Draw(k).random_key, Draw(k).salt,
               EncryptedData(m, l, Draw(k).random_key, Draw(k).current_time,
                             Draw(k).iv))

EncodeFrame(m, l, k) ==
    \* lines 165-227: open the image, build the payload and the header.
    /\ pc = "ready"
    /\ img.pixels # "unread"
    /\ message' = m
    /\ link' = l
    /\ draw' = k
    /\ data_to_hide' = Hidden(m, l, k)
    /\ pc' = "capacity"
    /\ UNCHANGED <<img, flat_img, out, raised, embedded, tampered, decoded>>

EncodeCapacityAfterWrite ==
    \* The capacity check run after the bits were written.
    /\ pc = "capacity"
    /\ img.pixels # "unread"
    /\ flat_img' = EmbedBits(Pixels(img), BytesToBits(data_to_hide))
    /\ IF TooLarge(Len(BytesToBits(data_to_hide)), Capacity(img.width, img.height))
       THEN pc' = "failed" /\ raised' = "ValueError"
       ELSE pc' = "embed" /\ raised' = raised
    /\ UNCHANGED <<img, message, link, draw, data_to_hide, out, embedded, tampered,
                   decoded>>

EncodeCapacity ==
    \* lines 229-232: the capacity check.
    /\ pc = "capacity"
    /\ img.pixels # "unread"
    /\ IF TooLarge(Len(BytesToBits(data_to_hide)), Capacity(img.width, img.height))
       THEN pc' = "failed" /\ raised' = "ValueError"
       ELSE pc' = "embed" /\ raised' = raised
    /\ UNCHANGED <<img, message, link, draw, data_to_hide, flat_img, out, embedded,
                   tampered, decoded>>

EncodeEmbed ==
    \* lines 234-243: flatten the pixels and write the bits.
    /\ pc = "embed"
    /\ img.pixels # "unread"
    /\ flat_img' = EmbedBits(Pixels(img), BytesToBits(data_to_hide))
    /\ embedded' = Len(BytesToBits(data_to_hide))
    /\ pc' = "save"
    /\ UNCHANGED <<img, message, link, draw, data_to_hide, out, raised, tampered,
                   decoded>>

EncodeSave ==
    \* lines 245-263: rebuild the pixels, save them as PNG, return True.
    /\ pc = "save"
    /\ img.pixels # "unread"
    /\ out' = [exists |-> TRUE, data |-> flat_img]
    /\ flat_img' = <<>>
    /\ data_to_hide' = <<>>
    /\ pc' = "encoded"
    /\ UNCHANGED <<img, message, link, draw, raised, embedded, tampered, decoded>>

(***************************************************************************)
(* The environment: an image from elsewhere, or a changed channel value    *)
(***************************************************************************)
Receive(f) ==
    /\ pc = "ready"
    /\ img.pixels # "unread"
    /\ out' = [exists |-> TRUE, data |-> f]
    /\ pc' = "received"
    /\ UNCHANGED <<img, message, link, draw, data_to_hide, flat_img, raised, embedded,
                   tampered, decoded>>

FlipLsb(data, i) ==
    [data EXCEPT ![i] = IF @ % 2 = 1 THEN @ - 1 ELSE @ + 1]

HiddenRegion ==
    \* The 1-based positions that carry a hidden bit, for a raster kept value
    \* by value.
    IF img.pixels = "unread" THEN {} ELSE 1..embedded

Tamper(i) ==
    \* One bit of the hidden region of the saved image is flipped.
    /\ pc = "encoded"
    /\ tampered = 0
    /\ out' = [out EXCEPT !.data = FlipLsb(@, i)]
    /\ tampered' = i
    /\ UNCHANGED <<pc, img, message, link, draw, data_to_hide, flat_img, raised,
                   embedded, decoded>>

(***************************************************************************)
(* decode(image_path)                                                      *)
(***************************************************************************)
Decode ==
    /\ pc \in {"encoded", "received"}
    /\ img.pixels # "unread"
    /\ out.exists
    /\ decoded' = DecodeImage(out.data)
    /\ pc' = "decoded"
    /\ UNCHANGED <<img, message, link, draw, data_to_hide, flat_img, out, raised,
                   embedded, tampered>>

Next ==
    \/ \E c \in Calls : EncodeFrame(c.message, c.link, c.draw)
    \/ EncodeCapacity
    \/ EncodeEmbed
    \/ EncodeSave
    \/ \E f \in ForeignRasters : Receive(f)
    \/ \E i \in HiddenRegion : Tamper(i)
    \/ Decode

Spec == Init /\ [][Next]_vars

(***************************************************************************)
(* Images too large to keep value by value. A long sequence is kept as its *)
(* first elements and its length, [head, len]: the header bytes of         *)
(* data_to_hide, the first HEADER_SIZE * 8 channel values of a raster. The *)
(* message is known by the length of its compressed form. encode and       *)
(* decode take the same decisions on the same numbers (TooLarge,           *)
(* ParseHeader, LengthInvalid); the bits after the header are the ones     *)
(* encode wrote, which decode turns back into the message (as it does,     *)
(* value by value, under Spec).                                            *)
(***************************************************************************)
EncryptedLen(compressed_len) ==
    \* len(fernet.encrypt(data)) for len(data) = compressed_len: base64 of
    \* 1 + 8 + 16 bytes, the padded blocks and the 32-byte tag.
    4 * ((1 + 8 + 16 + 16 * ((compressed_len \div 16) + 1) + 32 + 2) \div 3)

LargeImages ==
    { [width |-> 4000, height |-> 4000, pixels |-> "unread"],
      [width |-> 5164, height |-> 5164, pixels |-> "unread"],
      [width |-> 5200, height |-> 5200, pixels |-> "unread"] }

CompressedLengths == { 11, 4000000, 7499920, 7499936, 7600000 }

InitLarge == img \in LargeImages /\ Start

LargeFrame(c, k) ==
    \* EncodeFrame for a message whose compressed form has c bytes.
    /\ pc = "ready"
    /\ img.pixels = "unread"
    /\ message' = [compressed_len |-> c]
    /\ link' = <<>>
    /\ draw' = k
    /\ data_to_hide' = [head |-> HeaderWith(k, EncryptedLen(c)),
                        len  |-> HEADER_SIZE + EncryptedLen(c)]
    /\ pc' = "capacity"
    /\ UNCHANGED <<img, flat_img, out, raised, embedded, tampered, decoded>>

LargeCapacity ==
    /\ pc = "capacity"
    /\ img.pixels = "unread"
    /\ IF TooLarge(8 * data_to_hide.len, Capacity(img.width, img.height))
       THEN pc' = "failed" /\ raised' = "ValueError"
       ELSE pc' = "embed" /\ raised' = raised
    /\ UNCHANGED <<img, message, link, draw, data_to_hide, flat_img, out, embedded,
                   tampered, decoded>>

LargeEmbed ==
    /\ pc = "embed"
    /\ img.pixels = "unread"
    /\ flat_img' = [head |-> EmbedBits(Photo(HEADER_SIZE * 8),
                                       BytesToBits(data_to_hide.head)),
                    len  |-> Capacity(img.width, img.height)]
    /\ embedded' = 8 * data_to_hide.len
    /\ pc' = "save"
    /\ UNCHANGED <<img, message, link, draw, data_to_hide, out, raised, tampered,
                   decoded>>

LargeSave ==
    /\ pc = "save"
    /\ img.pixels = "unread"
    /\ out' = [exists |-> TRUE, data |-> flat_img]
    /\ flat_img' = <<>>
    /\ data_to_hide' = <<>>
    /\ pc' = "encoded"
    /\ UNCHANGED <<img, message, link, draw, raised, embedded, tampered, decoded>>

DecodeLarge(flat, text) ==
    \* DecodeImage on [head, len], the bits after the header being those of text.
    LET n      == flat.len
        hbits  == HEADER_SIZE * 8
        parsed == ParseHeader(BitsToBytes(Lsb(flat.head, 0, hbits)), n)
        dbits  == parsed.fields.data_length * 8
    IN  IF parsed.stage # "ok"
        THEN Outcome("", NoneResult, parsed.stage, hbits, parsed.fields)
        ELSE IF hbits + dbits > n
        THEN Outcome("", NoneResult, "IndexError", hbits + dbits, parsed.fields)
        ELSE Outcome("", StrResult(text), "decoded", hbits + dbits, parsed.fields)

LargeDecode ==
    /\ pc = "encoded"
    /\ img.pixels = "unread"
    /\ decoded' = DecodeLarge(out.data, message)
    /\ pc' = "decoded"
    /\ UNCHANGED <<img, message, link, draw, data_to_hide, flat_img, out, raised,
                   embedded, tampered>>

NextLarge ==
    \/ \E c \in CompressedLengths, k \in {1, 2} : LargeFrame(c, k)
    \/ LargeCapacity
    \/ LargeEmbed
    \/ LargeSave
    \/ LargeDecode

SpecAnySize == (Init \/ InitLarge) /\ [][Next \/ NextLarge]_vars

(***************************************************************************)
(* Properties                                                              *)
(***************************************************************************)
HiddenByte(data, j) ==
    \* Byte j (from 0) of the least-significant-bit stream of data, most
    \* significant bit first.
    (data[8 * j + 1] % 2) * 128 + (data[8 * j + 2] % 2) * 64
    + (data[8 * j + 3] % 2) * 32 + (data[8 * j + 4] % 2) * 16
    + (data[8 * j + 5] % 2) * 8 + (data[8 * j + 6] % 2) * 4
    + (data[8 * j + 7] % 2) * 2 + (data[8 * j + 8] % 2)

HiddenBytes(data, a, b) == [j \in 1..(b - a) |-> HiddenByte(data, a + j - 1)]

Small == img.pixels # "unread"

Ciphertext ==
    EncryptedData(message, link, Draw(draw).random_key, Draw(draw).current_time,
                  Draw(draw).iv)

Plaintext == IF Small THEN FullMessage(message, link) ELSE message

CiphertextLen == embedded \div 8 - HEADER_SIZE

EncodedThenDecoded == pc = "decoded" /\ embedded > 0 /\ tampered = 0

\* C1: whenever encode succeeded (the image has the capacity the hidden data
\* needs), decode of the saved image returns the message, with "\nLINK:" and the
\* link appended when a link was given.
RoundTrip ==
    EncodedThenDecoded =>
        decoded.raised = "" /\ decoded.ret = StrResult(Plaintext)

\* What holds in place of RoundTrip: the message comes back exactly when the
\* ciphertext is at most MAX_DATA_LENGTH bytes long; above it encode succeeds
\* and decode returns None.
RoundTripWithinCeiling ==
    EncodedThenDecoded =>
        /\ decoded.raised = ""
        /\ decoded.ret = IF CiphertextLen <= MAX_DATA_LENGTH
                         THEN StrResult(Plaintext)
                         ELSE NoneResult

RoundTripWitness ==
    /\ EncodedThenDecoded
    /\ Small
    /\ link # <<>>
    /\ decoded.ret = StrResult(message \o <<10, 76, 73, 78, 75, 58>> \o link)

\* C2: encode raises ValueError exactly when the bits required,
\* 8 * (74 + len(ciphertext)), exceed the capacity width * height * 3; an
\* image of exactly the required capacity is accepted.
CapacityBoundary ==
    (pc \in {"failed", "embed"} /\ Small) =>
        LET required_bits == 8 * (74 + Len(Ciphertext))
            capacity_bits == img.width * img.height * 3
        IN  /\ (raised = "ValueError") <=> (required_bits > capacity_bits)
            /\ (pc = "failed") <=> (raised = "ValueError")

CapacityBoundaryWitness ==
    /\ pc = "embed"
    /\ Small
    /\ raised = ""
    /\ 8 * (74 + Len(Ciphertext)) = img.width * img.height * 3

\* C3: when encode raises ValueError for insufficient capacity, no channel
\* value has been written and no output file exists; values are written only
\* after the capacity check has passed.
AtomicAbort ==
    /\ raised = "ValueError" =>
           pc = "failed" /\ flat_img = <<>> /\ out = NoFile /\ embedded = 0
    /\ (flat_img # <<>> \/ out.exists) /\ embedded > 0 =>
           embedded <= img.width * img.height * 3

AtomicAbortWitness ==
    /\ raised = "ValueError"
    /\ Small
    /\ 8 * Len(data_to_hide) = img.width * img.height * 3 + 1

\* C4: in the saved image every channel value that carries a hidden bit keeps
\* its upper seven bits and has the hidden bit as its lowest, every value after
\* the hidden bits is unchanged, and the raster keeps its length.
NonDestructive ==
    (pc = "encoded" /\ tampered = 0 /\ Small) =>
        LET old  == Pixels(img)
            new  == out.data
            bits == BytesToBits(DataToHide(Draw(draw).random_key, Draw(draw).salt,
                                           Ciphertext))
        IN  /\ Len(new) = Len(old)
            /\ embedded = Len(bits)
            /\ \A i \in 1..Len(old) :
                   IF i <= embedded
                   THEN /\ new[i] \div 2 = old[i] \div 2
                        /\ new[i] % 2 = bits[i]
                   ELSE new[i] = old[i]

NonDestructiveWitness ==
    /\ pc = "encoded"
    /\ tampered = 0
    /\ Small
    /\ embedded < Len(out.data)
    /\ \E i \in 1..embedded : out.data[i] # Pixels(img)[i]
    /\ \E i \in (embedded + 1)..Len(out.data) : out.data[i] % 2 = 1

\* C5: decode of an image with fewer than 592 channel values returns None
\* without raising.
TruncatedIsNone ==
    (pc = "decoded" /\ Small /\ Len(out.data) < HEADER_SIZE * 8) =>
        decoded.raised = "" /\ decoded.ret = NoneResult

\* C6: for an image of at least 592 channel values decode never raises, and it
\* returns a string only if the hidden bytes start with CELFIE and carry a token
\* that authenticates under the embedded key, inflates and is valid UTF-8;
\* otherwise it returns None.
CarriesPayload(data) ==
    LET data_length == UnpackLittleEndian(HiddenBytes(data, 58, 66))
    IN  /\ HiddenBytes(data, 0, 6) = SIGNATURE
        /\ data_length <= MAX_DATA_LENGTH
        /\ HEADER_SIZE * 8 + data_length * 8 <= Len(data)
        /\ LET token == FernetDecrypt(HiddenBytes(data, 10, 42),
                                      HiddenBytes(data, 74, 74 + data_length))
           IN  /\ token.ok
               /\ ZlibDecompress(token.val).ok
               /\ Utf8Decode(ZlibDecompress(token.val).val).ok

NegativeDetection ==
    (pc = "decoded" /\ Small /\ Len(out.data) >= HEADER_SIZE * 8) =>
        /\ decoded.raised = ""
        /\ decoded.ret.kind \in {"None", "str"}
        /\ decoded.ret # NoneResult => CarriesPayload(out.data)
        /\ HiddenBytes(out.data, 0, 6) # SIGNATURE => decoded.ret = NoneResult

NegativeDetectionWitness ==
    /\ pc = "decoded"
    /\ embedded = 0
    /\ Len(out.data) >= HEADER_SIZE * 8
    /\ HiddenBytes(out.data, 0, 6) = SIGNATURE
    /\ decoded.stage = "zlib.error"
    /\ decoded.ret = NoneResult

\* C7: decode returns None when bytes 66..73 of the header differ from the
\* delimiter 00 FF 00 FF 00 FF 00 FF.
DelimiterVerified ==
    (/\ pc = "decoded"
     /\ Small
     /\ Len(out.data) >= HEADER_SIZE * 8
     /\ HiddenBytes(out.data, 66, 74) # DELIMITER) =>
        decoded.ret = NoneResult

\* C8: after one bit of the embedded key (header bytes 10..41) or of the
\* ciphertext is flipped in an encoded image, decode returns None.
TamperDetected ==
    (/\ pc = "decoded"
     /\ \/ tampered \in (8 * 10 + 1)..(8 * 42)
        \/ tampered \in (8 * HEADER_SIZE + 1)..embedded) =>
        decoded.ret = NoneResult

\* C9: the hidden bytes are, in order, "CELFIE", the version 1 as 4
\* little-endian bytes, the 32-byte key, the 16-byte salt, the ciphertext length
\* as 8 little-endian bytes, the delimiter and the ciphertext, all packed with
\* no padding (74 header bytes); decode reads the same fields back.
WireFormat ==
    /\ (pc = "encoded" /\ tampered = 0 /\ Small) =>
           LET n == Len(Ciphertext)
           IN  /\ embedded = 8 * (74 + n)
               /\ HiddenBytes(out.data, 0, 6) = <<67, 69, 76, 70, 73, 69>>
               /\ HiddenBytes(out.data, 6, 10) = <<1, 0, 0, 0>>
               /\ HiddenBytes(out.data, 10, 42) = Draw(draw).random_key
               /\ HiddenBytes(out.data, 42, 58) = Draw(draw).salt
               /\ HiddenBytes(out.data, 58, 66) =
                      <<n % 256, (n \div 256) % 256, (n \div 65536) % 256,
                        n \div 16777216, 0, 0, 0, 0>>
               /\ HiddenBytes(out.data, 66, 74) = <<0, 255, 0, 255, 0, 255, 0, 255>>
               /\ HiddenBytes(out.data, 74, 74 + n) = Ciphertext
    /\ (EncodedThenDecoded /\ Small) =>
           decoded.header = [version     |-> 1,
                             key         |-> Draw(draw).random_key,
                             salt        |-> Draw(draw).salt,
                             data_length |-> Len(Ciphertext)]

WireFormatWitness ==
    /\ EncodedThenDecoded
    /\ Small
    /\ decoded.header.version = 1
    /\ decoded.header.data_length = 120
    /\ HiddenBytes(out.data, 58, 60) = <<120, 0>>

\* C10: decode goes on to read the payload only when the length field
\* satisfies payload_length * 8 <= capacity_bits - 592 and payload_length <=
\* 10,000,000; otherwise it returns None, and it never reads a channel value
\* beyond the raster.
LengthValidated ==
    (/\ pc = "decoded"
     /\ Small
     /\ Len(out.data) >= HEADER_SIZE * 8
     /\ HiddenBytes(out.data, 0, 6) = SIGNATURE) =>
        LET payload_length == decoded.header.data_length
            capacity_bits  == Len(out.data)
            valid == /\ payload_length <= MAX_DATA_LENGTH
                     /\ payload_length * 8 <= capacity_bits - 592
        IN  /\ ~valid => decoded.ret = NoneResult /\ decoded.reads = 592
            /\ decoded.reads <= capacity_bits

=============================================================================
